---- MODULE Spec2Model ----
(***************************************************************************)
(* MISMO XML to JSON parser (src/main.py).                                 *)
(*                                                                         *)
(* Python strings are sequences of one-character strings, so that          *)
(* str.strip, str.split and the substring test `k in s` are computed, not  *)
(* assumed.  A JSON value is a tagged record [t, v]:                       *)
(*   t = "str"   v = the characters                                        *)
(*   t = "dict"  v = the items <<key, value>> in insertion order           *)
(*   t = "list"  v = the elements                                          *)
(*   t = "int"   v = a number        (only json.load can produce it)       *)
(*   t = "null"  v = <<>>            (only json.load can produce it)       *)
(* An Element is [tag, attrib, text, children]; text is <<>> for None and  *)
(* <<s>> for the string s; attrib is a sequence of <<name, value>>.        *)
(***************************************************************************)
EXTENDS Integers, Sequences, FiniteSets, TLC

VARIABLES
    pc,               \* position of main(), or of a direct call of the extractor
    argv,             \* the command line: [kind, structured]
    input_file,       \* what lies at args.input: [kind, doc]
    args,             \* <<>> or <<the namespace parse_arguments returned>>
    root,             \* <<>> or <<tree.getroot()>>
    json_data,        \* <<>> or <<the value of the variable json_data>>
    json_file,        \* <<>> or <<the value this run dumped into json_file>>
    structured_data,  \* <<>> or <<the record _extract_loan_data returned>>
    structured_file,  \* <<>> or <<the value this run dumped into structured_file>>
    warned,           \* _extract_loan_data printed its warning
    events,           \* the calls made so far, in order
    exit_code         \* <<>> while running, <<n>> once the process has ended

vars == <<pc, argv, input_file, args, root, json_data, json_file, structured_data,
          structured_file, warned, events, exit_code>>

-----------------------------------------------------------------------------
(* Bounds of the model *)

\* most children of the root of a generic document
MaxChildren == 3

\* most same-tagged items in one section of a MISMO document
MaxRep == 2

-----------------------------------------------------------------------------
(* Python strings *)

Whitespace == {" ", "\t", "\n"}

RECURSIVE lstrip(_)
lstrip(s) ==
    IF s # <<>> /\ Head(s) \in Whitespace THEN lstrip(Tail(s)) ELSE s

RECURSIVE rstrip(_)
rstrip(s) ==
    IF s # <<>> /\ s[Len(s)] \in Whitespace
    THEN rstrip(SubSeq(s, 1, Len(s) - 1))
    ELSE s

\* str.lstrip() in the place of str.strip()
StripLeftOnly(s) == lstrip(s)

\* str.strip()
strip(s) == rstrip(lstrip(s))

\* `sub in s` for two strings
StrContains(sub, s) ==
    \E i \in 0..(Len(s) - Len(sub)) : SubSeq(s, i + 1, i + Len(sub)) = sub

\* `c in s` for a character c
HasChar(c, s) == \E i \in 1..Len(s) : s[i] = c

\* position of the first c in s, or Len(s) + 1
RECURSIVE FirstIndex(_, _, _)
FirstIndex(c, s, i) ==
    IF i > Len(s) \/ s[i] = c THEN i ELSE FirstIndex(c, s, i + 1)

\* s.split(c): the pieces between the occurrences of c
RECURSIVE split(_, _)
split(s, c) ==
    LET i == FirstIndex(c, s, 1)
    IN  IF i > Len(s)
        THEN <<s>>
        ELSE <<SubSeq(s, 1, i - 1)>> \o split(SubSeq(s, i + 1, Len(s)), c)

-----------------------------------------------------------------------------
(* JSON values *)

Str(s) == [t |-> "str", v |-> s]
Dict(items) == [t |-> "dict", v |-> items]
List(elems) == [t |-> "list", v |-> elems]
Num(n) == [t |-> "int", v |-> n]
Null == [t |-> "null", v |-> <<>>]

IsStr(x) == x.t = "str"
IsDict(x) == x.t = "dict"
IsList(x) == x.t = "list"      \* isinstance(x, list)

\* the keys of a dict's items, in insertion order
Keys(items) == [i \in 1..Len(items) |-> items[i][1]]

HasKey(items, k) == \E i \in 1..Len(items) : items[i][1] = k

\* d[k] for a key that is present
GetItem(items, k) ==
    items[CHOOSE i \in 1..Len(items) : items[i][1] = k][2]

\* d[k] = val: replaces the value in place, or appends a new item
SetItem(items, k, val) ==
    IF HasKey(items, k)
    THEN [i \in 1..Len(items) |->
              IF items[i][1] = k THEN <<k, val>> ELSE items[i]]
    ELSE Append(items, <<k, val>>)

\* d.update(other)
RECURSIVE Update(_, _)
Update(items, other) ==
    IF other = <<>>
    THEN items
    ELSE Update(SetItem(items, other[1][1], other[1][2]), Tail(other))

-----------------------------------------------------------------------------
(* Elements *)

Elem(tag, attrib, text, children) ==
    [tag |-> tag, attrib |-> attrib, text |-> text, children |-> children]

HashText == <<"#", "t", "e", "x", "t">>

\* _clean_tag_name taking the piece before the marker
CleanTagNameFirstPiece(tag) ==
    IF HasChar("}", tag) THEN split(tag, "}")[1] ELSE tag

\* MISMOXMLToJSONParser._clean_tag_name
CleanTagName(tag) ==
    IF HasChar("}", tag) THEN split(tag, "}")[2] ELSE tag

\* the test without `and element.text.strip()`: any text that is not empty
HasTextUnstripped(element) ==
    element.text # <<>> /\ element.text[1] # <<>>

\* `element.text and element.text.strip()`
HasText(element) ==
    /\ element.text # <<>>
    /\ element.text[1] # <<>>
    /\ strip(element.text[1]) # <<>>

\* the loop body without the test for a tag seen before: the last child wins
AddChildOverwrites(children, child_tag, child_dict) ==
    SetItem(children, child_tag, child_dict)

\* one turn of the loop over the children: the repetition rule
AddChild(children, child_tag, child_dict) ==
    IF HasKey(children, child_tag)
    THEN LET old == GetItem(children, child_tag)
             lst == IF ~IsList(old) THEN <<old>> ELSE old.v
         IN  SetItem(children, child_tag, List(Append(lst, child_dict)))
    ELSE SetItem(children, child_tag, child_dict)

\* the end of _element_to_dict without `if not result: return ""`
FinishWithEmptyDict(result) == Dict(result)

\* the end of _element_to_dict returning an empty list for an empty result
FinishWithEmptyList(result) ==
    IF result = <<>> THEN List(<<>>) ELSE Dict(result)

\* what _element_to_dict returns when text and children are all collected
Finish(result) == IF result = <<>> THEN Str(<<>>) ELSE Dict(result)

\* MISMOXMLToJSONParser._element_to_dict
RECURSIVE ElementToDict(_)
RECURSIVE ProcessChildren(_, _, _)
ProcessChildren(kids, i, children) ==
    IF i > Len(kids)
    THEN children
    ELSE ProcessChildren(kids, i + 1,
             AddChild(children, CleanTagName(kids[i].tag), ElementToDict(kids[i])))

ElementToDict(element) ==
    IF HasText(element) /\ Len(element.children) = 0
    THEN Str(strip(element.text[1]))
    ELSE LET result == IF HasText(element)
                       THEN <<<<HashText, Str(strip(element.text[1]))>>>>
                       ELSE <<>>
             children == ProcessChildren(element.children, 1, <<>>)
         IN  Finish(Update(result, children))

-----------------------------------------------------------------------------
(* The keys _extract_loan_data looks up *)

ABOUT_VERSIONS == <<"A", "B", "O", "U", "T", "_", "V", "E", "R", "S", "I", "O", "N", "S">>
ABOUT_VERSION == <<"A", "B", "O", "U", "T", "_", "V", "E", "R", "S", "I", "O", "N">>
DEAL_SETS == <<"D", "E", "A", "L", "_", "S", "E", "T", "S">>
DEAL_SET == <<"D", "E", "A", "L", "_", "S", "E", "T">>
DEALS == <<"D", "E", "A", "L", "S">>
DEAL == <<"D", "E", "A", "L">>
COLLATERALS == <<"C", "O", "L", "L", "A", "T", "E", "R", "A", "L", "S">>
COLLATERAL == <<"C", "O", "L", "L", "A", "T", "E", "R", "A", "L">>
LOANS == <<"L", "O", "A", "N", "S">>
LOAN == <<"L", "O", "A", "N">>
PARTIES == <<"P", "A", "R", "T", "I", "E", "S">>
PARTY == <<"P", "A", "R", "T", "Y">>
RELATIONSHIPS == <<"R", "E", "L", "A", "T", "I", "O", "N", "S", "H", "I", "P", "S">>
RELATIONSHIP == <<"R", "E", "L", "A", "T", "I", "O", "N", "S", "H", "I", "P">>

-----------------------------------------------------------------------------
(* Loan data extractor *)

\* the record built at the top of _extract_loan_data
DefaultLoanData ==
    [message_info |-> Dict(<<>>), deal_info |-> Dict(<<>>),
     collaterals |-> List(<<>>), loans |-> List(<<>>),
     parties |-> List(<<>>), relationships |-> List(<<>>)]

\* progress of the try block: the record so far, and whether a statement raised
Ok(ld) == [exc |-> FALSE, ld |-> ld]
Raise(ld) == [exc |-> TRUE, ld |-> ld]

\* `if key in x: y = x[key]`.  "found" with y; "absent" when the test is
\* false; "raise" when Python raises TypeError: the test on a number or
\* None, or the subscript on a string or a list that passed the test.
Lookup(x, key) ==
    CASE x.t = "dict" ->
             IF HasKey(x.v, key)
             THEN [st |-> "found", val |-> GetItem(x.v, key)]
             ELSE [st |-> "absent", val |-> Null]
      [] x.t = "str" ->
             IF StrContains(key, x.v)
             THEN [st |-> "raise", val |-> Null]
             ELSE [st |-> "absent", val |-> Null]
      [] x.t = "list" ->
             IF \E i \in 1..Len(x.v) : IsStr(x.v[i]) /\ x.v[i].v = key
             THEN [st |-> "raise", val |-> Null]
             ELSE [st |-> "absent", val |-> Null]
      [] OTHER -> [st |-> "raise", val |-> Null]

\* `if isinstance(x, list): x = x[0]`: IndexError on the empty list
First(x) ==
    IF IsList(x)
    THEN IF x.v = <<>>
         THEN [st |-> "raise", val |-> Null]
         ELSE [st |-> "found", val |-> x.v[1]]
    ELSE [st |-> "found", val |-> x]

\* `if not isinstance(x, list): x = [x]`
WrapIfSingular(x) == IF ~IsList(x) THEN List(<<x>>) ELSE x

\* "Extract message info"
MessageInfoRow(json_data_, ld) ==
    LET a == Lookup(json_data_, ABOUT_VERSIONS)
    IN  IF a.st = "raise" THEN Raise(ld)
        ELSE IF a.st = "absent" THEN Ok(ld)
        ELSE LET b == Lookup(a.val, ABOUT_VERSION)
             IN  IF b.st = "raise" THEN Raise(ld)
                 ELSE IF b.st = "absent" THEN Ok(ld)
                 ELSE LET about_version == First(b.val)
                      IN  IF about_version.st = "raise" THEN Raise(ld)
                          ELSE Ok([ld EXCEPT !.message_info = about_version.val])

\* "Extract collaterals", "Extract loans", "Extract parties" and
\* "Extract relationships": outer -> inner, made a list, stored in field
PluralRow(x, outer, inner, field, ld) ==
    LET a == Lookup(x, outer)
    IN  IF a.st = "raise" THEN Raise(ld)
        ELSE IF a.st = "absent" THEN Ok(ld)
        ELSE LET b == Lookup(a.val, inner)
             IN  IF b.st = "raise" THEN Raise(ld)
                 ELSE IF b.st = "absent" THEN Ok(ld)
                 ELSE Ok([ld EXCEPT ![field] = WrapIfSingular(b.val)])

\* the three lookups below `loan_data['deal_info'] = deal`: each runs only
\* when none before it has raised
DealParts(deal, ld) ==
    LET c == PluralRow(deal, COLLATERALS, COLLATERAL, "collaterals", ld)
    IN  IF c.exc THEN c
        ELSE
    LET l == PluralRow(deal, LOANS, LOAN, "loans", c.ld)
    IN  IF l.exc THEN l
        ELSE PluralRow(deal, PARTIES, PARTY, "parties", l.ld)

\* "Extract deal info"
DealInfoRow(json_data_, ld) ==
    LET a == Lookup(json_data_, DEAL_SETS)
    IN  IF a.st = "raise" THEN Raise(ld)
        ELSE IF a.st = "absent" THEN Ok(ld)
        ELSE
    LET b == Lookup(a.val, DEAL_SET)
    IN  IF b.st = "raise" THEN Raise(ld)
        ELSE IF b.st = "absent" THEN Ok(ld)
        ELSE
    LET deal_set == First(b.val)
    IN  IF deal_set.st = "raise" THEN Raise(ld)
        ELSE
    LET c == Lookup(deal_set.val, DEALS)
    IN  IF c.st = "raise" THEN Raise(ld)
        ELSE IF c.st = "absent" THEN Ok(ld)
        ELSE
    LET d == Lookup(c.val, DEAL)
    IN  IF d.st = "raise" THEN Raise(ld)
        ELSE IF d.st = "absent" THEN Ok(ld)
        ELSE
    LET deal == First(d.val)
    IN  IF deal.st = "raise" THEN Raise(ld)
        ELSE DealParts(deal.val, [ld EXCEPT !.deal_info = deal.val])

\* "Extract relationships"
RelationshipsRow(json_data_, ld) ==
    PluralRow(json_data_, RELATIONSHIPS, RELATIONSHIP, "relationships", ld)

\* the body of the try block: each row runs only when none before it has
\* raised
TryBlock(json_data_) ==
    LET m == MessageInfoRow(json_data_, DefaultLoanData)
    IN  IF m.exc THEN m
        ELSE
    LET d == DealInfoRow(json_data_, m.ld)
    IN  IF d.exc THEN d
        ELSE RelationshipsRow(json_data_, d.ld)

\* no except clause: the exception leaves the call
NoExcept(r) == [raised |-> r.exc, warned |-> FALSE, value |-> r.ld]

\* `except Exception`: the warning is printed and nothing leaves the call
ExceptException(r) == [raised |-> FALSE, warned |-> r.exc, value |-> r.ld]

\* MISMOXMLToJSONParser._extract_loan_data
ExtractLoanData(json_data_) == ExceptException(TryBlock(json_data_))

-----------------------------------------------------------------------------
(* The documents the runs are given *)

Leaf(tag, s) == Elem(tag, <<>>, <<s>>, <<>>)

TagA == <<"a">>
TagNA == <<"{", "n", "}", "a">>
TagMA == <<"{", "m", "}", "a">>
TagB == <<"b">>
TagR == <<"r">>
TagId == <<"I", "d">>
AttrId == <<<<<<"i", "d">>, <<"1">>>>>>

\* the children a generic document draws from
Kids ==
    { Leaf(TagA, <<" ", "x", " ">>),
      Leaf(TagNA, <<"y">>),
      Elem(TagMA, <<>>, <<>>, <<>>),
      Elem(TagB, AttrId, <<<<"y">>>>, <<>>),
      Elem(TagB, <<>>, <<<<"\n", "x", "\t">>>>,
           <<Leaf(TagA, <<" ", "x", " ">>), Leaf(TagNA, <<"y">>),
             Leaf(TagA, <<" ">>)>>) }

RootVariants ==
    { [attrib |-> <<>>, text |-> <<>>],
      [attrib |-> AttrId, text |-> <<<<"\n", " ">>>>],
      [attrib |-> <<>>, text |-> <<<<" ", "x", "\n">>>>] }

SeqsUpTo(S, n) == UNION {[1..k -> S] : k \in 0..n}

GenericDocs ==
    { Elem(TagR, rv.attrib, rv.text, ks) :
          rv \in RootVariants, ks \in SeqsUpTo(Kids, MaxChildren) }
        \cup {Leaf(TagR, <<"y">>)}

Digits == <<"1", "2", "3", "4", "5", "6", "7", "8", "9">>

\* the i-th item of a section: <tag><Id>i</Id></tag>
Item(tag, i) == Elem(tag, <<>>, <<<<"\n">>>>, <<Leaf(TagId, <<Digits[i]>>)>>)

Shape(kind, n) == [kind |-> kind, n |-> n]

\* the shapes of a section <outer> holding <inner> items
PluralShapes ==
    {Shape("absent", 0), Shape("text", 0), Shape("leaf", 1)}
        \cup {Shape("maps", n) : n \in 1..MaxRep}

Section(outer, inner, shape) ==
    CASE shape.kind = "absent" -> <<>>
      [] shape.kind = "text" -> <<Leaf(outer, inner)>>
      [] shape.kind = "leaf" ->
             <<Elem(outer, <<>>, <<>>, <<Leaf(inner, <<"v">>)>>)>>
      [] shape.kind = "maps" ->
             <<Elem(outer, <<>>, <<>>, [i \in 1..shape.n |-> Item(inner, i)])>>

Deal(c, l, p) ==
    Elem(DEAL, <<>>, <<>>,
         Section(LOANS, LOAN, l) \o Section(COLLATERALS, COLLATERAL, c)
             \o Section(PARTIES, PARTY, p))

\* a second DEAL or DEAL_SET, which the extractor must pass over
OtherDeal == Elem(DEAL, <<>>, <<>>, Section(LOANS, LOAN, Shape("leaf", 1)))
DealSetOf(deals) ==
    Elem(DEAL_SET, <<>>, <<>>, <<Elem(DEALS, <<>>, <<>>, deals)>>)

Spines == {"none", "one", "two_deals", "two_sets", "leaf_deal", "text", "twice"}

DealSets(spine, deal) ==
    CASE spine = "none" -> <<>>
      [] spine = "one" ->
             <<Elem(DEAL_SETS, <<>>, <<>>, <<DealSetOf(<<deal>>)>>)>>
      [] spine = "two_deals" ->
             <<Elem(DEAL_SETS, <<>>, <<>>, <<DealSetOf(<<deal, OtherDeal>>)>>)>>
      [] spine = "two_sets" ->
             <<Elem(DEAL_SETS, <<>>, <<>>,
                    <<DealSetOf(<<deal>>), DealSetOf(<<OtherDeal>>)>>)>>
      [] spine = "leaf_deal" ->
             <<Elem(DEAL_SETS, <<>>, <<>>, <<DealSetOf(<<Leaf(DEAL, <<"v">>)>>)>>)>>
      [] spine = "text" -> <<Leaf(DEAL_SETS, DEAL_SET)>>
      [] spine = "twice" ->
             <<Elem(DEAL_SETS, <<>>, <<>>, <<DealSetOf(<<OtherDeal>>)>>),
               Elem(DEAL_SETS, <<>>, <<<<>>>>, <<>>)>>

AboutShapes == {"absent", "text", "leaf", "map", "two"}

About(shape) ==
    CASE shape = "absent" -> <<>>
      [] shape = "text" -> <<Leaf(ABOUT_VERSIONS, ABOUT_VERSION)>>
      [] shape = "leaf" ->
             <<Elem(ABOUT_VERSIONS, <<>>, <<>>,
                    <<Leaf(ABOUT_VERSION, <<"3", ".", "4">>)>>)>>
      [] shape = "map" ->
             <<Elem(ABOUT_VERSIONS, <<>>, <<>>, <<Item(ABOUT_VERSION, 1)>>)>>
      [] shape = "two" ->
             <<Elem(ABOUT_VERSIONS, <<>>, <<>>,
                    <<Item(ABOUT_VERSION, 1), Item(ABOUT_VERSION, 2)>>)>>

RelShapes == {Shape("absent", 0)} \cup {Shape("maps", n) : n \in 1..MaxRep}
PartyShapes == {Shape("absent", 0), Shape("maps", 1), Shape("maps", MaxRep)}

MESSAGE == <<"M", "E", "S", "S", "A", "G", "E">>

MismoDoc(a, sp, c, l, p, r) ==
    Elem(MESSAGE, <<>>, <<<<"\n">>>>,
         About(a) \o DealSets(sp, Deal(c, l, p))
             \o Section(RELATIONSHIPS, RELATIONSHIP, r))

\* every shape of the message information and of the relationships around one
\* plain deal, and every shape of the deal below two shapes of the message
\* information
MismoDocs ==
    { MismoDoc(a, "one", Shape("maps", 1), Shape("maps", 1), Shape("maps", 1), r) :
          a \in AboutShapes, r \in RelShapes }
        \cup
    { MismoDoc(a, sp, c, l, p, Shape("maps", 1)) :
          a \in {"map", "text"}, sp \in Spines, c \in PluralShapes,
          l \in PluralShapes, p \in PartyShapes }

Docs == GenericDocs \cup MismoDocs

\* what can lie at args.input
InputFiles ==
    {[kind |-> "missing", doc |-> <<>>], [kind |-> "malformed", doc |-> <<>>],
     [kind |-> "unreadable", doc |-> <<>>]}
        \cup {[kind |-> "xml", doc |-> <<d>>] : d \in Docs}

-----------------------------------------------------------------------------
(* main() *)

\* the command lines: one argparse rejects, --help, and the accepted ones
\* without and with --structured
CommandLines ==
    {[kind |-> "rejected", structured |-> FALSE],
     [kind |-> "help", structured |-> FALSE],
     [kind |-> "accepted", structured |-> FALSE],
     [kind |-> "accepted", structured |-> TRUE]}

\* a command line that argparse turns down or answers with the help text
\* names no file that main looks at: one document stands for them all
Init ==
    /\ pc = "parse_arguments"
    /\ argv \in CommandLines
    /\ input_file \in InputFiles
    /\ argv.kind # "accepted" =>
           input_file = [kind |-> "xml", doc |-> <<Leaf(TagR, <<"y">>)>>]
    /\ args = <<>>
    /\ root = <<>>
    /\ json_data = <<>>
    /\ json_file = <<>>
    /\ structured_data = <<>>
    /\ structured_file = <<>>
    /\ warned = FALSE
    /\ events = <<>>
    /\ exit_code = <<>>

\* sys.exit(n), and the end of main for n = 0
Exit(n) == pc' = "exit" /\ exit_code' = <<n>>

\* the except clauses of main with `except Exception` first
MainExceptGenericFirst(exc) == 1

\* the except clauses of main: the exit code for an exception of class exc
MainExcept(exc) == IF exc = "ParseError" THEN 2 ELSE 1

\* parse_arguments: argparse ends the process with 2 on a command line it
\* rejects and with 0 after --help; otherwise main goes on with the namespace
ParseArguments ==
    /\ pc = "parse_arguments"
    /\ events' = Append(events, "parse_args")
    /\ CASE argv.kind = "rejected" -> Exit(2) /\ args' = args
         [] argv.kind = "help" -> Exit(0) /\ args' = args
         [] OTHER ->
                /\ args' = <<[structured |-> argv.structured]>>
                /\ pc' = "validate"
                /\ exit_code' = exit_code
    /\ UNCHANGED <<argv, input_file, root, json_data, json_file,
                   structured_data, structured_file, warned>>

\* "Validate input file"
ValidateInput ==
    /\ pc = "validate"
    /\ events' = Append(events, "exists")
    /\ IF input_file.kind = "missing"
       THEN Exit(1)
       ELSE pc' = "parse" /\ exit_code' = exit_code
    /\ UNCHANGED <<argv, input_file, args, root, json_data, json_file,
                   structured_data, structured_file, warned>>

\* parse_xml_to_json up to getroot(): ET.parse raises ParseError on
\* malformed XML and OSError on a file it cannot read
ParseXml ==
    /\ pc = "parse"
    /\ events' = Append(events, "ET.parse")
    /\ CASE input_file.kind = "malformed" ->
                Exit(MainExcept("ParseError")) /\ root' = root
         [] input_file.kind = "unreadable" ->
                Exit(MainExcept("OSError")) /\ root' = root
         [] OTHER ->
                root' = input_file.doc /\ pc' = "transform"
                    /\ exit_code' = exit_code
    /\ UNCHANGED <<argv, input_file, args, json_data, json_file, structured_data,
                   structured_file, warned>>

\* json_data = self._element_to_dict(root)
Transform ==
    /\ pc = "transform"
    /\ events' = Append(events, "_element_to_dict")
    /\ json_data' = <<ElementToDict(root[1])>>
    /\ pc' = "write_json"
    /\ UNCHANGED <<argv, input_file, args, root, json_file, structured_data,
                   structured_file, warned, exit_code>>

\* open(output_file_path, 'w') and json.dump; then the test of args.structured
WriteJson ==
    /\ pc = "write_json"
    /\ \/ /\ events' = Append(events, "open_json_failed")
          /\ Exit(MainExcept("OSError"))
          /\ json_file' = json_file
       \/ /\ events' = Append(events, "open_json_w")
          /\ json_file' = json_data
          /\ IF args[1].structured
             THEN pc' = "read_json" /\ exit_code' = exit_code
             ELSE Exit(0)
    /\ UNCHANGED <<argv, input_file, args, root, json_data, structured_data,
                   structured_file, warned>>

\* json_data = json.load(f): the value json.dump wrote, which holds only
\* strings, dicts with string keys and lists, is read back as it was
ReadJson ==
    /\ pc = "read_json"
    /\ events' = Append(events, "open_json_r")
    /\ json_data' = json_file
    /\ pc' = "extract"
    /\ UNCHANGED <<argv, input_file, args, root, json_file, structured_data,
                   structured_file, warned, exit_code>>

\* structured_data = parser._extract_loan_data(json_data)
Extract ==
    /\ pc = "extract"
    /\ events' = Append(events, "_extract_loan_data")
    /\ LET r == ExtractLoanData(json_data[1])
       IN  IF r.raised
           THEN /\ Exit(MainExcept("Exception"))
                /\ UNCHANGED <<structured_data, warned>>
           ELSE /\ structured_data' = <<r.value>>
                /\ warned' = r.warned
                /\ pc' = "write_structured"
                /\ exit_code' = exit_code
    /\ UNCHANGED <<argv, input_file, args, root, json_data, json_file,
                   structured_file>>

\* open(structured_file, 'w') and json.dump; main then returns
WriteStructured ==
    /\ pc = "write_structured"
    /\ \/ /\ events' = Append(events, "open_structured_failed")
          /\ Exit(MainExcept("OSError"))
          /\ structured_file' = structured_file
       \/ /\ events' = Append(events, "open_structured_w")
          /\ structured_file' = structured_data
          /\ Exit(0)
    /\ UNCHANGED <<argv, input_file, args, root, json_data, json_file,
                   structured_data, warned>>

Next ==
    \/ ParseArguments
    \/ ValidateInput
    \/ ParseXml
    \/ Transform
    \/ WriteJson
    \/ ReadJson
    \/ Extract
    \/ WriteStructured

Spec == Init /\ [][Next]_vars

-----------------------------------------------------------------------------
(* A direct call of _extract_loan_data, on a JSON value of any shape *)

\* {"Id": "i"}
IdMap(i) == Dict(<<<<TagId, Str(<<Digits[i]>>)>>>>)

\* the values found at the end of a lookup path
Terminals ==
    {IdMap(1), Str(<<"v">>), Null, Num(0), List(<<>>),
     List(<<Str(<<"v">>), IdMap(1)>>)}
        \cup {List([i \in 1..n |-> IdMap(i)]) : n \in 1..MaxRep}

FewTerminals == {IdMap(1), Str(<<"v">>), List([i \in 1..MaxRep |-> IdMap(i)])}

\* values that do not hold key as a mapping would
Misshapen(key) ==
    {Dict(<<>>), Str(<<>>), Str(key), Num(0), Null, List(<<>>),
     List(<<Str(key)>>), List(<<Dict(<<<<key, IdMap(1)>>>>)>>)}

FewMisshapen(key) == {Dict(<<>>), Str(key), Num(0)}

\* a value, or a list that starts with it
OrFirstOf(S) == S \cup {List(<<x, Str(<<"v">>)>>) : x \in S}

Opt(S) == {<<>>} \cup {<<x>> : x \in S}

\* the dict holding each key whose optional value is present
DictOf(keys, opts) ==
    Dict(SelectSeq([i \in 1..Len(keys) |->
                        IF opts[i] = <<>> THEN <<>> ELSE <<keys[i], opts[i][1]>>],
                   LAMBDA it : it # <<>>))

PartVals(inner) ==
    Opt({Dict(<<<<inner, x>>>>) : x \in FewTerminals} \cup FewMisshapen(inner))

DealVals ==
    { DictOf(<<COLLATERALS, LOANS, PARTIES>>, <<c, l, p>>) :
          c \in PartVals(COLLATERAL), l \in PartVals(LOAN),
          p \in PartVals(PARTY) }
        \cup {Str(LOANS), Str(<<"v">>), Null, List(<<>>)}

DealsVals ==
    {Dict(<<<<DEAL, x>>>>) : x \in OrFirstOf(DealVals) \cup {List(<<>>)}}
        \cup Misshapen(DEAL)

DealSetsVals ==
    {Dict(<<<<DEAL_SET, x>>>>) :
         x \in OrFirstOf({Dict(<<<<DEALS, y>>>>) : y \in DealsVals}
                             \cup Misshapen(DEALS)) \cup {List(<<>>)}}
        \cup Misshapen(DEAL_SET)

AboutVals ==
    {Dict(<<<<ABOUT_VERSION, x>>>>) : x \in Terminals} \cup Misshapen(ABOUT_VERSION)

RelVals ==
    {Dict(<<<<RELATIONSHIP, x>>>>) : x \in Terminals} \cup Misshapen(RELATIONSHIP)

SimpleDeal ==
    DictOf(<<COLLATERALS, LOANS, PARTIES>>,
           <<<<Dict(<<<<COLLATERAL, IdMap(1)>>>>)>>,
             <<Dict(<<<<LOAN, IdMap(2)>>>>)>>,
             <<Dict(<<<<PARTY, IdMap(3)>>>>)>>>>)

FewAbout == Opt({Dict(<<<<ABOUT_VERSION, IdMap(1)>>>>), Str(ABOUT_VERSION)})
FewRel == Opt({Dict(<<<<RELATIONSHIP, IdMap(1)>>>>), Num(0)})
FewDealSets ==
    Opt({Dict(<<<<DEAL_SET, Dict(<<<<DEALS, Dict(<<<<DEAL, SimpleDeal>>>>)>>>>)>>>>),
         Str(DEAL_SETS)})

RootOf(a, d, r) == DictOf(<<ABOUT_VERSIONS, DEAL_SETS, RELATIONSHIPS>>, <<a, d, r>>)

AnyJson ==
    {RootOf(a, d, r) : a \in Opt(AboutVals), d \in FewDealSets, r \in FewRel}
        \cup {RootOf(a, d, r) : a \in FewAbout, d \in Opt(DealSetsVals), r \in FewRel}
        \cup {RootOf(a, d, r) : a \in FewAbout, d \in FewDealSets, r \in Opt(RelVals)}
        \cup Misshapen(ABOUT_VERSIONS) \cup Misshapen(DEAL_SETS)
        \cup Misshapen(RELATIONSHIPS)
        \cup {List(<<RootOf(<<>>, <<>>, <<>>)>>), Str(<<"v">>)}

InitExtract ==
    /\ pc = "call_extract"
    /\ argv = [kind |-> "none", structured |-> FALSE]
    /\ input_file = [kind |-> "none", doc |-> <<>>]
    /\ args = <<>>
    /\ root = <<>>
    /\ json_data \in {<<j>> : j \in AnyJson}
    /\ json_file = <<>>
    /\ structured_data = <<>>
    /\ structured_file = <<>>
    /\ warned = FALSE
    /\ events = <<>>
    /\ exit_code = <<>>

\* result = parser._extract_loan_data(json_data), as the tests call it
CallExtract ==
    /\ pc = "call_extract"
    /\ events' = Append(events, "_extract_loan_data")
    /\ LET r == ExtractLoanData(json_data[1])
       IN  IF r.raised
           THEN /\ pc' = "raised"
                /\ UNCHANGED <<structured_data, warned>>
           ELSE /\ pc' = "returned"
                /\ structured_data' = <<r.value>>
                /\ warned' = r.warned
    /\ UNCHANGED <<argv, input_file, args, root, json_data, json_file,
                   structured_file, exit_code>>

NextExtract == CallExtract

SpecExtract == InitExtract /\ [][NextExtract]_vars

-----------------------------------------------------------------------------
(* What the claims speak of, stated without the transformer's own steps *)

\* the element and all its descendants
RECURSIVE SubElements(_)
SubElements(e) ==
    {e} \cup UNION {SubElements(e.children[i]) : i \in 1..Len(e.children)}

\* the elements of the parsed document, once the transformer has run
Transformed ==
    IF pc = "write_json" /\ root # <<>> THEN SubElements(root[1]) ELSE {}

\* T is s without its leading and trailing whitespace
IsTrimOf(T, s) ==
    IF \A i \in 1..Len(s) : s[i] \in Whitespace
    THEN T = <<>>
    ELSE \E i \in 1..Len(s), j \in 1..Len(s) :
             /\ i <= j
             /\ T = SubSeq(s, i, j)
             /\ s[i] \notin Whitespace /\ s[j] \notin Whitespace
             /\ \A k \in 1..Len(s) : (k < i \/ k > j) => s[k] \in Whitespace

\* the element's text holds a character that is not whitespace
NonEmptyText(e) ==
    e.text # <<>> /\ \E i \in 1..Len(e.text[1]) : e.text[1][i] \notin Whitespace

\* the element takes the leaf shortcut
LeafShortcut(e) == e.children = <<>> /\ NonEmptyText(e)

\* local is what follows the namespace marker of tag, or tag when it has none
IsLocalName(local, tag) ==
    IF \E i \in 1..Len(tag) : tag[i] = "}"
    THEN \E i \in 1..Len(tag) :
             /\ tag[i] = "}"
             /\ local = SubSeq(tag, i + 1, Len(tag))
             /\ \A k \in 1..Len(local) : local[k] \notin {"{", "}"}
    ELSE local = tag

\* the local name of tag
LocalNameOf(tag) ==
    CHOOSE local \in {SubSeq(tag, a, Len(tag)) : a \in 1..(Len(tag) + 1)} :
        IsLocalName(local, tag)

\* the positions of the children of e whose cleaned tag is t, in document order
RECURSIVE Ascending(_)
Ascending(S) ==
    IF S = {} THEN <<>>
    ELSE LET m == CHOOSE x \in S : \A y \in S : x <= y
         IN  <<m>> \o Ascending(S \ {m})

Carrying(e, t) ==
    Ascending({i \in 1..Len(e.children) : CleanTagName(e.children[i].tag) = t})

AtAttributes == <<"@", "a", "t", "t", "r", "i", "b", "u", "t", "e", "s">>

\* the mapping of each attribute name to its string value
AttributesOf(e) ==
    Dict([i \in 1..Len(e.attrib) |-> <<e.attrib[i][1], Str(e.attrib[i][2])>>])

-----------------------------------------------------------------------------
(* C1 *)

\* C1: every element that does not take the leaf shortcut and has attributes
\* is transformed to a mapping holding '@attributes', the mapping of its
\* attribute names to their values; with no text and no children that is
\* the only key.  The transformer never reads element.attrib, so this fails.
C1_AttributesKey ==
    \A e \in Transformed :
        (~LeafShortcut(e) /\ e.attrib # <<>>) =>
            LET out == ElementToDict(e)
            IN  /\ IsDict(out)
                /\ HasKey(out.v, AtAttributes)
                /\ GetItem(out.v, AtAttributes) = AttributesOf(e)
                /\ (e.children = <<>> => Keys(out.v) = <<AtAttributes>>)

-----------------------------------------------------------------------------
(* C2 *)

\* C2: for every element and every cleaned tag t of its children, the output
\* holds under t the child's value itself when one child carries t, and the
\* sequence of the n values in document order when n >= 2 children carry t,
\* next to one another or not.
C2_RepetitionRule ==
    \A e \in Transformed :
        e.children # <<>> =>
            LET out == ElementToDict(e)
            IN  /\ IsDict(out)
                /\ \A i \in 1..Len(e.children) :
                       LET t == CleanTagName(e.children[i].tag)
                           same == Carrying(e, t)
                       IN  /\ HasKey(out.v, t)
                           /\ GetItem(out.v, t) =
                                  IF Len(same) >= 2
                                  THEN List([k \in 1..Len(same) |->
                                                ElementToDict(e.children[same[k]])])
                                  ELSE ElementToDict(e.children[i])

\* an element with a tag carried by two children that are not next to one
\* another, and a tag carried by one child
C2_Witness ==
    \E e \in Transformed :
        /\ \E i \in 1..Len(e.children) :
               LET same == Carrying(e, CleanTagName(e.children[i].tag))
               IN  Len(same) >= 2 /\ same[2] > same[1] + 1
        /\ \E i \in 1..Len(e.children) :
               Len(Carrying(e, CleanTagName(e.children[i].tag))) = 1

-----------------------------------------------------------------------------
(* C7 *)

\* C7: an element with no attributes, no children and non-empty trimmed text
\* T is transformed to the string T itself.
C7_LeafShortcut ==
    \A e \in Transformed :
        (e.attrib = <<>> /\ e.children = <<>> /\ NonEmptyText(e)) =>
            LET out == ElementToDict(e)
            IN  IsStr(out) /\ out.v # <<>> /\ IsTrimOf(out.v, e.text[1])

\* a leaf whose text has whitespace on both sides of T
C7_Witness ==
    \E e \in Transformed :
        /\ e.attrib = <<>> /\ e.children = <<>> /\ NonEmptyText(e)
        /\ e.text[1][1] \in Whitespace
        /\ e.text[1][Len(e.text[1])] \in Whitespace

-----------------------------------------------------------------------------
(* C8 *)

\* C8: an element with no attributes, no children and absent, empty or
\* whitespace-only text is transformed to the empty string, never to an
\* empty mapping.
C8_EmptyElement ==
    \A e \in Transformed :
        (e.attrib = <<>> /\ e.children = <<>> /\ ~NonEmptyText(e)) =>
            ElementToDict(e) = Str(<<>>)

\* an element without text, or with the empty text, or with whitespace only
C8_Witness ==
    \E e \in Transformed :
        /\ e.attrib = <<>> /\ e.children = <<>>
        /\ \/ e.text = <<>>
           \/ e.text = <<<<>>>>
           \/ e.text # <<>> /\ e.text[1] # <<>> /\ ~NonEmptyText(e)

-----------------------------------------------------------------------------
(* C9 *)

\* C9: _clean_tag_name returns what follows the namespace marker and leaves
\* a tag without one as it is; the child keys of an output mapping are the
\* local names of the children, so no key holds a part of a namespace, and
\* children of different namespaces with one local name share one key.
C9_NamespaceStripping ==
    \A e \in Transformed :
        /\ CleanTagName(e.tag) = LocalNameOf(e.tag)
        /\ e.children # <<>> =>
               LET out == ElementToDict(e)
                   locals == {LocalNameOf(e.children[i].tag) :
                                  i \in 1..Len(e.children)}
               IN  /\ IsDict(out)
                   /\ {out.v[k][1] : k \in 1..Len(out.v)} \ {HashText} = locals
                   /\ \A k \in 1..Len(out.v) :
                          \A c \in 1..Len(out.v[k][1]) :
                              out.v[k][1][c] \notin {"{", "}"}
                   /\ \A k, k2 \in 1..Len(out.v) :
                          out.v[k][1] = out.v[k2][1] => k = k2
                   /\ \A i, j \in 1..Len(e.children) :
                          (/\ i # j
                           /\ LocalNameOf(e.children[i].tag) =
                                  LocalNameOf(e.children[j].tag))
                              => IsList(GetItem(out.v, LocalNameOf(e.children[i].tag)))

\* two children in different namespaces with one local name, under one key
C9_Witness ==
    \E e \in Transformed :
        \E i, j \in 1..Len(e.children) :
            /\ e.children[i].tag # e.children[j].tag
            /\ HasChar("}", e.children[i].tag)
            /\ HasChar("}", e.children[j].tag)
            /\ LocalNameOf(e.children[i].tag) = LocalNameOf(e.children[j].tag)
            /\ IsList(GetItem(ElementToDict(e).v, LocalNameOf(e.children[i].tag)))

-----------------------------------------------------------------------------
(* The lookup paths of the extractor, stated on the JSON value *)

Hop(key, first) == [key |-> key, first |-> first]

AboutPath == <<Hop(ABOUT_VERSIONS, FALSE), Hop(ABOUT_VERSION, TRUE)>>
DealPath ==
    <<Hop(DEAL_SETS, FALSE), Hop(DEAL_SET, TRUE), Hop(DEALS, FALSE),
      Hop(DEAL, TRUE)>>
CollateralsPath == DealPath \o <<Hop(COLLATERALS, FALSE), Hop(COLLATERAL, FALSE)>>
LoansPath == DealPath \o <<Hop(LOANS, FALSE), Hop(LOAN, FALSE)>>
PartiesPath == DealPath \o <<Hop(PARTIES, FALSE), Hop(PARTY, FALSE)>>
RelationshipsPath == <<Hop(RELATIONSHIPS, FALSE), Hop(RELATIONSHIP, FALSE)>>

PathOf ==
    [message_info |-> AboutPath, deal_info |-> DealPath,
     collaterals |-> CollateralsPath, loans |-> LoansPath,
     parties |-> PartiesPath, relationships |-> RelationshipsPath]

Fields == DOMAIN PathOf

\* the path leads from x to a value: every hop starts at a mapping that holds
\* the hop's key, and where the first of a sequence is taken there is one
RECURSIVE Reaches(_, _)
Reaches(x, path) ==
    \/ path = <<>>
    \/ /\ IsDict(x)
       /\ HasKey(x.v, path[1].key)
       /\ LET y == GetItem(x.v, path[1].key)
          IN  IF path[1].first /\ IsList(y)
              THEN y.v # <<>> /\ Reaches(y.v[1], Tail(path))
              ELSE Reaches(y, Tail(path))

\* the value a path that Reaches leads to
RECURSIVE ValueAt(_, _)
ValueAt(x, path) ==
    IF path = <<>>
    THEN x
    ELSE LET y == GetItem(x.v, path[1].key)
         IN  ValueAt(IF path[1].first /\ IsList(y) THEN y.v[1] ELSE y, Tail(path))

\* x coerced to a sequence
AsSequence(x) == IF x.t = "list" THEN x ELSE List(<<x>>)

-----------------------------------------------------------------------------
(* C3 *)

\* C3: a call of _extract_loan_data on a JSON value of any shape returns (it
\* never raises) a record with exactly the six keys, in which every field
\* whose lookup path is absent or misshaped has its default; on {} the
\* record is all defaults.
C3_ExtractNeverRaises ==
    pc # "call_extract" =>
        /\ pc = "returned"
        /\ structured_data # <<>>
        /\ DOMAIN structured_data[1] =
               {"message_info", "deal_info", "collaterals", "loans", "parties",
                "relationships"}
        /\ \A f \in Fields :
               ~Reaches(json_data[1], PathOf[f]) =>
                   structured_data[1][f] = DefaultLoanData[f]
        /\ json_data[1] = Dict(<<>>) => structured_data[1] = DefaultLoanData

\* a call that met an exception inside, and returned with a field filled
\* before it and the fields after it at their defaults
C3_Witness ==
    /\ pc = "returned"
    /\ warned
    /\ structured_data[1].message_info # DefaultLoanData.message_info
    /\ ~Reaches(json_data[1], DealPath)
    /\ structured_data[1].deal_info = DefaultLoanData.deal_info

-----------------------------------------------------------------------------
(* C4 *)

\* the record main got from the extractor, for the parsed document
Extracted == pc = "write_structured" /\ root # <<>>

\* C4: the rows of the extractor are independent.  Whenever the root holds
\* RELATIONSHIPS as a mapping containing RELATIONSHIP, relationships is that
\* value coerced to a sequence, whatever ABOUT_VERSIONS and DEAL_SETS hold;
\* and loans and parties are filled from their paths whatever COLLATERALS
\* holds.  One try block spans all the rows, so this fails.
C4_RowsIndependent ==
    Extracted =>
        \A f \in {"relationships", "loans", "parties"} :
            Reaches(json_data[1], PathOf[f]) =>
                structured_data[1][f] = AsSequence(ValueAt(json_data[1], PathOf[f]))

-----------------------------------------------------------------------------
(* C5 *)

\* C5: for every document, the record has message_info and deal_info each a
\* mapping and collaterals, loans, parties and relationships each a sequence
\* of mappings.  The extractor stores whatever lies at the end of a path, a
\* string included, so this fails.
C5_RecordShape ==
    Extracted =>
        /\ IsDict(structured_data[1].message_info)
        /\ IsDict(structured_data[1].deal_info)
        /\ \A f \in {"collaterals", "loans", "parties", "relationships"} :
               /\ IsList(structured_data[1][f])
               /\ \A i \in 1..Len(structured_data[1][f].v) :
                      IsDict(structured_data[1][f].v[i])

-----------------------------------------------------------------------------
(* C6 *)

\* the children of e whose local name is t, in document order
ChildrenTagged(e, t) ==
    SelectSeq(e.children, LAMBDA c : LocalNameOf(c.tag) = t)

RECURSIVE Flatten(_)
Flatten(ss) == IF ss = <<>> THEN <<>> ELSE Head(ss) \o Flatten(Tail(ss))

\* the <inner> children of the <outer> children of e, in document order
ItemsOf(e, outer, inner) ==
    LET sections == ChildrenTagged(e, outer)
    IN  Flatten([i \in 1..Len(sections) |-> ChildrenTagged(sections[i], inner)])

\* the path leads from x through mappings to a mapping
RECURSIVE ReachesMappings(_, _)
ReachesMappings(x, path) ==
    /\ IsDict(x)
    /\ \/ path = <<>>
       \/ /\ HasKey(x.v, path[1].key)
          /\ LET y == GetItem(x.v, path[1].key)
             IN  IF path[1].first /\ IsList(y)
                 THEN y.v # <<>> /\ ReachesMappings(y.v[1], Tail(path))
                 ELSE ReachesMappings(y, Tail(path))

\* the first DEAL element of the document, below its first DEAL_SET
FirstDeal(doc) ==
    LET deal_sets == ChildrenTagged(doc, DEAL_SETS)[1]
        deal_set == ChildrenTagged(deal_sets, DEAL_SET)[1]
        deals == ChildrenTagged(deal_set, DEALS)[1]
    IN  ChildrenTagged(deals, DEAL)[1]

Transforms(elems) == List([i \in 1..Len(elems) |-> ElementToDict(elems[i])])

\* C6: for a document whose path DEAL_SETS -> DEAL_SET -> DEALS -> DEAL
\* consists of mappings, the record has deal_info the first DEAL and loans,
\* collaterals and parties the transformed LOAN, COLLATERAL and PARTY
\* children of that DEAL in document order, one child giving a sequence of
\* one.  An exception in an earlier row (C4) leaves them empty, so this fails.
C6_EndToEnd ==
    (Extracted /\ ReachesMappings(json_data[1], DealPath)) =>
        LET deal == FirstDeal(root[1])
        IN  /\ structured_data[1].deal_info = ElementToDict(deal)
            /\ structured_data[1].loans = Transforms(ItemsOf(deal, LOANS, LOAN))
            /\ structured_data[1].collaterals =
                   Transforms(ItemsOf(deal, COLLATERALS, COLLATERAL))
            /\ structured_data[1].parties = Transforms(ItemsOf(deal, PARTIES, PARTY))

-----------------------------------------------------------------------------
(* C10 *)

Happened(ev) == \E i \in 1..Len(events) : events[i] = ev

Missing == input_file.kind = "missing"
Malformed == input_file.kind = "malformed"

\* a failure that is neither a missing input nor malformed XML
GenericFailure ==
    \/ input_file.kind = "unreadable" /\ Happened("ET.parse")
    \/ Happened("open_json_failed")
    \/ Happened("open_structured_failed")

\* the exit code the claim gives a run
ClaimedExitCode ==
    IF Missing \/ GenericFailure THEN 1 ELSE IF Malformed THEN 2 ELSE 0

\* a missing input is decided before any parse; malformed XML is refused
\* before the transformer runs and before an output file is opened
RefusedInTime ==
    /\ Missing => ~Happened("ET.parse")
    /\ Malformed =>
           /\ ~Happened("_element_to_dict")
           /\ ~Happened("open_json_w") /\ ~Happened("open_structured_w")
           /\ json_file = <<>> /\ structured_file = <<>>

\* C10 as claimed: every run of main ends with 1 when the input file is
\* missing or on a generic failure, with 2 exactly when the XML is malformed
\* and with 0 otherwise.  A command line that argparse rejects ends the run
\* with 2 whatever the input file is, so this fails.
C10_ExitCodes ==
    pc = "exit" => exit_code = <<ClaimedExitCode>> /\ RefusedInTime

\* C10 as amended: every run of main whose command line argparse accepts ends
\* with 1 when the input file is missing (decided before any parse) or on a
\* generic failure, with 2 exactly when the XML is malformed and with 0
\* otherwise, malformed XML being refused before _element_to_dict runs and
\* before any output file is opened; a run whose command line argparse
\* rejects ends with 2, and a --help run with 0, before the input file is
\* looked at.
C10_ExitCodesAmended ==
    pc = "exit" =>
        /\ argv.kind = "rejected" => exit_code = <<2>> /\ events = <<"parse_args">>
        /\ argv.kind = "help" => exit_code = <<0>> /\ events = <<"parse_args">>
        /\ argv.kind = "accepted" =>
               exit_code = <<ClaimedExitCode>> /\ RefusedInTime

\* an accepted command line naming a malformed file: the run has ended with 2
\* at the parse
C10_Witness ==
    /\ pc = "exit"
    /\ argv.kind = "accepted"
    /\ Malformed
    /\ exit_code = <<2>>
    /\ events = <<"parse_args", "exists", "ET.parse">>

-----------------------------------------------------------------------------
(* C11 *)

\* the cleaned tags of the children of e, each once, in the order in which
\* the document first shows them
FirstSeen(e) ==
    LET firsts == Ascending({i \in 1..Len(e.children) :
                       \A j \in 1..(i - 1) :
                           CleanTagName(e.children[j].tag) #
                               CleanTagName(e.children[i].tag)})
    IN  [k \in 1..Len(firsts) |-> CleanTagName(e.children[firsts[k]].tag)]

\* C11: for every element with at least one child, the output is a mapping
\* that holds '#text' exactly when the element's trimmed text is not empty;
\* '#text' then holds the trimmed text and is the first key, and the other
\* keys are the cleaned child tags in first-seen document order.
C11_MixedContent ==
    \A e \in Transformed :
        e.children # <<>> =>
            LET out == ElementToDict(e)
            IN  /\ IsDict(out)
                /\ HasKey(out.v, HashText) <=> NonEmptyText(e)
                /\ NonEmptyText(e) =>
                       /\ Keys(out.v) = <<HashText>> \o FirstSeen(e)
                       /\ IsStr(out.v[1][2])
                       /\ out.v[1][2].v # <<>>
                       /\ IsTrimOf(out.v[1][2].v, e.text[1])
                /\ ~NonEmptyText(e) => Keys(out.v) = FirstSeen(e)

\* an element whose text is whitespace only and whose children show two
\* tags, the first of them again after the second; one of its children has
\* text with whitespace around it and children of its own
C11_Witness ==
    \E e \in Transformed :
        /\ e.text # <<>> /\ e.text[1] # <<>> /\ ~NonEmptyText(e)
        /\ Len(FirstSeen(e)) >= 2
        /\ Len(Carrying(e, FirstSeen(e)[1])) >= 2
        /\ Carrying(e, FirstSeen(e)[1])[2] > Carrying(e, FirstSeen(e)[2])[1]
        /\ \E i \in 1..Len(e.children) :
               LET c == e.children[i]
               IN  /\ c.children # <<>>
                   /\ NonEmptyText(c)
                   /\ c.text[1][1] \in Whitespace
                   /\ c.text[1][Len(c.text[1])] \in Whitespace

-----------------------------------------------------------------------------
(* C12 *)

\* x and every value inside it, through mappings and sequences
RECURSIVE ValuesIn(_)
ValuesIn(x) ==
    {x} \cup
        IF IsDict(x) THEN UNION {ValuesIn(x.v[i][2]) : i \in 1..Len(x.v)}
        ELSE IF IsList(x) THEN UNION {ValuesIn(x.v[i]) : i \in 1..Len(x.v)}
        ELSE {}

\* a string, or a mapping with at least one key and no key twice
StringOrNonEmptyMapping(x) ==
    \/ IsStr(x)
    \/ /\ IsDict(x)
       /\ x.v # <<>>
       /\ \A i \in 1..Len(x.v), j \in 1..Len(x.v) :
              x.v[i][1] = x.v[j][1] => i = j

\* C12: for every element, the value _element_to_dict returns is a string
\* or a non-empty mapping; every sequence inside it has at least two
\* elements, each a string or a non-empty mapping and none a sequence; and
\* every child tag holds as many values as children carry it, so that no
\* child value is lost or flattened.
C12_ShapeInvariant ==
    \A e \in Transformed :
        LET out == ElementToDict(e)
        IN  /\ StringOrNonEmptyMapping(out)
            /\ \A x \in ValuesIn(out) :
                   IF IsList(x)
                   THEN /\ Len(x.v) >= 2
                        /\ \A i \in 1..Len(x.v) : StringOrNonEmptyMapping(x.v[i])
                   ELSE StringOrNonEmptyMapping(x)
            /\ \A k \in 1..Len(FirstSeen(e)) :
                   LET t == FirstSeen(e)[k]
                       n == Len(Carrying(e, t))
                   IN  /\ IsDict(out) /\ HasKey(out.v, t)
                       /\ IF IsList(GetItem(out.v, t))
                          THEN n >= 2 /\ Len(GetItem(out.v, t).v) = n
                          ELSE n = 1

\* an element with a tag carried by a child whose value is a string and by a
\* child with children of its own that repeat a tag, one of them empty: a
\* sequence holding a mapping that holds a sequence with the empty string
C12_Witness ==
    \E e \in Transformed :
        \E i \in 1..Len(e.children), j \in 1..Len(e.children) :
            /\ i # j
            /\ CleanTagName(e.children[i].tag) = CleanTagName(e.children[j].tag)
            /\ IsStr(ElementToDict(e.children[i]))
            /\ \E k \in 1..Len(e.children[j].children) :
                   LET c == e.children[j]
                   IN  /\ ElementToDict(c.children[k]) = Str(<<>>)
                       /\ Len(Carrying(c, CleanTagName(c.children[k].tag))) >= 2

====
